---- MODULE Spec2Model ----
(***************************************************************************)
(* The simulation core of tacyan/space-shooter (the revision with items    *)
(* and fire-power): the room registry, the connection handlers, the        *)
(* per-room game loop and the tick (updateGame).                           *)
(*                                                                         *)
(* Lengths are kept in half pixels (Px(n) = 2n), because a bullet is       *)
(* created at player.X + Width/2 - 2.5; every other coordinate of the      *)
(* program is a whole number of pixels.                                    *)
(*                                                                         *)
(* Go's map iteration order is unspecified: wherever the code ranges over  *)
(* a map and the result depends on the order, the model takes every order. *)
(* An access the code makes without the lock that guards the data is a     *)
(* step of its own, so that it interleaves with the steps of other tasks.  *)
(***************************************************************************)
EXTENDS Integers, FiniteSets, Sequences, TLC

VARIABLES
    gameRooms,  \* the registry: ids of the rooms in the gameRooms map
    rooms,      \* every GameRoom object ever created, by id (a sequence)
    loop,       \* per room: where its gameLoop goroutine stands
    sess,       \* per session: where its handleWebSocket call stands
    clients,    \* the clients map: ids of the sessions in it
    snap,       \* per room: the state map broadcastGameState holds while it sends
    clock,      \* number of ticks taken so far (bounds the run)
    ev          \* history: what the last step did (read by the properties only)

vars == <<gameRooms, rooms, loop, sess, clients, snap, clock, ev>>

----------------------------------------------------------------------------
(* Bounds of the model *)

\* sessions of the main specification
NumSessions == 2
\* sessions of the admission specification
AdmitSessions == 5
\* GameRoom objects that may be created
MaxRooms == 2
\* bullets alive in one room
MaxBullets == 2
\* enemies plus items alive in one room
MaxEntities == 2
\* ticks in one run
MaxTicks == 2
\* fire-power of a player of the shooting specification
MaxFirePower == 4
\* bullets alive in the room of the shooting specification
MaxVolley == 8
MaxFall == 60

----------------------------------------------------------------------------
(* Program constants *)

MaxPlayers == 4
BossThreshold == 20
BossHealth == 100
BossBonus == 500
KillScore == 10
FullHealth == 100
BulletDamage == 15
EnemyDamage == 10
BossDamage == 20

Px(n) == 2 * n

FieldW == Px(800)
FieldH == Px(600)
PlayerSize == Px(30)

NoBoss == [Type |-> "none"]

Min(S) == CHOOSE x \in S : \A y \in S : x <= y

Drop(f, k) == [x \in DOMAIN f \ {k} |-> f[x]]

FreeId(f, max) == Min((1..max) \ DOMAIN f)

----------------------------------------------------------------------------
(* Entities *)

newGameRoom ==
    [Players |-> <<>>, Bullets |-> <<>>, Enemies |-> <<>>, Items |-> <<>>,
     Boss |-> NoBoss, EnemiesDefeated |-> 0, BossSpawned |-> FALSE,
     GameState |-> "playing"]

newPlayer(x, y) ==
    [X |-> Px(x), Y |-> Px(y), VX |-> 0, VY |-> 0, W |-> PlayerSize, H |-> PlayerSize,
     Health |-> FullHealth, Score |-> 0, FirePower |-> 1]

newBoss ==
    [Type |-> "boss", X |-> Px(400 - 50), Y |-> Px(50), VX |-> Px(2), VY |-> 0,
     W |-> Px(100), H |-> Px(80), Health |-> BossHealth]

newEnemy(x, vx, vy) ==
    [Type |-> "enemy", X |-> Px(x), Y |-> 0, VX |-> Px(vx), VY |-> Px(vy),
     W |-> Px(30), H |-> Px(30)]

newItem(e) ==
    [Type |-> "item", X |-> e.X, Y |-> e.Y, VX |-> 0, VY |-> Px(1),
     W |-> Px(15), H |-> Px(15)]

enemyBullet(e) ==
    [Type |-> "enemyBullet", X |-> e.X + e.W \div 2, Y |-> e.Y + e.H,
     VX |-> 0, VY |-> Px(3), W |-> Px(5), H |-> Px(5)]

bossBullet(b, vx, vy) ==
    [Type |-> "bossBullet", X |-> b.X + b.W \div 2, Y |-> b.Y + b.H,
     VX |-> Px(vx), VY |-> Px(vy), W |-> Px(10), H |-> Px(10)]

\* bullet i of a shot of player p: offset is (i - (FirePower-1)/2) * 5 pixels,
\* with Go's integer division, and the lateral speed is offset * 0.2
fireOffset(i, fp) == i - ((fp - 1) \div 2)

playerBullet(p, i) ==
    [Type |-> "bullet",
     X |-> p.X + p.W \div 2 - 5 + Px(fireOffset(i, p.FirePower) * 5),
     Y |-> p.Y, VX |-> Px(fireOffset(i, p.FirePower)), VY |-> Px(0 - 6),
     W |-> Px(5), H |-> Px(10)]

\* one turn of createBullet's loop: bullet i of session s, from the player as
\* it is now, is put in the bullet map
insertBullet(R, s, i, cap) ==
    [R EXCEPT !.Bullets = @ @@ (FreeId(@, cap) :> playerBullet(R.Players[s], i))]

\* a variant of volley that makes one bullet whatever the fire-power
volley_OneShot(R, s, i, cap) == insertBullet(R, s, i, cap)

\* the loop of createBullet from turn i on, when no other task steps in
RECURSIVE volley(_, _, _, _)
volley(R, s, i, cap) ==
    IF i < R.Players[s].FirePower THEN volley(insertBullet(R, s, i, cap), s, i + 1, cap)
    ELSE R

createBullet(R, s, cap) == IF R.GameState # "playing" THEN R ELSE volley(R, s, 0, cap)

\* a variant of checkCollision for which touching edges overlap
checkCollision_Touching(a, b) ==
    /\ a.X <= b.X + b.W
    /\ a.X + a.W >= b.X
    /\ a.Y <= b.Y + b.H
    /\ a.Y + a.H >= b.Y

checkCollision(a, b) ==
    /\ a.X < b.X + b.W
    /\ a.X + a.W > b.X
    /\ a.Y < b.Y + b.H
    /\ a.Y + a.H > b.Y

hasBoss(R) == R.Boss.Type = "boss"

allDead(R) == \A q \in DOMAIN R.Players : R.Players[q].Health <= 0

----------------------------------------------------------------------------
(* updateGame: one tick of a room.  The passes work on a record            *)
(*   [R: the room, trans: the GameState changes made so far in this tick,  *)
(*    hits: friendly bullets that hit the boss, bonus: times the clear     *)
(*    bonus was granted, shots: hostile bullets that hit a player,         *)
(*    crashes: enemies that ran into a player, touches: players the boss   *)
(*    ran into]                                                            *)
(* and give the set of results over the iteration orders of the maps.      *)

setState(w, s) ==
    IF w.R.GameState = s THEN w
    ELSE [w EXCEPT !.R.GameState = s, !.trans = Append(@, s)]

checkAllDead(w) == IF allDead(w.R) THEN setState(w, "gameover") ELSE w

\* a variant of clamp that leaves the coordinate as the move made it
clamp_None(v, hi) == v

clamp(v, hi) == LET lo == IF v < 0 THEN 0 ELSE v IN IF lo > hi THEN hi ELSE lo

movePlayers(R) ==
    [R EXCEPT !.Players =
        [s \in DOMAIN @ |->
            [@[s] EXCEPT !.X = clamp(@ + R.Players[s].VX, Px(770)),
                         !.Y = clamp(@ + R.Players[s].VY, Px(570))]]]

\* the enemies of F are those whose rand.Intn(1000) < 5 came true
RECURSIVE enemyFire(_, _)
enemyFire(R, F) ==
    IF F = {} THEN R
    ELSE LET e == Min(F)
             bid == FreeId(R.Bullets, MaxBullets)
         IN enemyFire([R EXCEPT !.Bullets = @ @@ (bid :> enemyBullet(R.Enemies[e]))],
                      F \ {e})

\* a variant of hostileHit that does not floor the health at 0
hostileHit_NoFloor(w, p) ==
    checkAllDead([w EXCEPT !.R.Players[p].Health = @ - BulletDamage, !.shots = @ + 1])

\* a variant of hostileHit in which the bullet hurts every player of the room
hostileHit_Everyone(w, p) ==
    checkAllDead([w EXCEPT !.R.Players = [q \in DOMAIN @ |->
                               [@[q] EXCEPT !.Health = IF @ < BulletDamage THEN 0
                                                       ELSE @ - BulletDamage]],
                           !.shots = @ + 1])

hostileHit(w, p) ==
    LET h == w.R.Players[p].Health - BulletDamage
    IN checkAllDead([w EXCEPT !.R.Players[p].Health = IF h < 0 THEN 0 ELSE h,
                              !.shots = @ + 1])

\* a variant of bossHit that takes the boss away one hit early
bossHit_OneEarly(w) ==
    LET h == w.R.Boss.Health - 1
        w1 == [w EXCEPT !.R.Boss.Health = h, !.hits = @ + 1]
    IN IF h <= 1
       THEN LET w2 == setState(w1, "clear")
            IN [w2 EXCEPT !.R.Boss = NoBoss,
                          !.R.Players = [s \in DOMAIN @ |->
                                            [@[s] EXCEPT !.Score = @ + BossBonus]],
                          !.bonus = @ + 1]
       ELSE w1

bossHit(w) ==
    LET h == w.R.Boss.Health - 1
        w1 == [w EXCEPT !.R.Boss.Health = h, !.hits = @ + 1]
    IN IF h <= 0
       THEN LET w2 == setState(w1, "clear")
            IN [w2 EXCEPT !.R.Boss = NoBoss,
                          !.R.Players = [s \in DOMAIN @ |->
                                            [@[s] EXCEPT !.Score = @ + BossBonus]],
                          !.bonus = @ + 1]
       ELSE w1

\* a variant of enemyKill that destroys every enemy the bullet overlaps
enemyKill_All(w, b, e) ==
    LET hit == {x \in DOMAIN w.R.Enemies : checkCollision(b, w.R.Enemies[x])}
    IN {[w EXCEPT !.R.Enemies = [x \in DOMAIN @ \ hit |-> @[x]],
                  !.R.EnemiesDefeated = @ + 1,
                  !.R.Items = @ @@ (FreeId(@, MaxEntities) :> newItem(w.R.Enemies[e]))]}

\* bullet b (already removed from w) destroys enemy e; the score goes to the
\* first player, in map order, whose position equals the bullet's
enemyKill(w, b, e) ==
    LET E == w.R.Enemies[e]
        w1 == [w EXCEPT !.R.Enemies = Drop(@, e),
                        !.R.EnemiesDefeated = @ + 1,
                        !.R.Items = @ @@ (FreeId(@, MaxEntities) :> newItem(E))]
        same == {p \in DOMAIN w.R.Players :
                    w.R.Players[p].X = b.X /\ w.R.Players[p].Y = b.Y}
    IN IF same = {} THEN {w1}
       ELSE {[w1 EXCEPT !.R.Players[p].Score = @ + KillScore] : p \in same}

bulletStep(w, id) ==
    LET b0 == w.R.Bullets[id]
        b == [b0 EXCEPT !.X = @ + b0.VX, !.Y = @ + b0.VY]
        moved == [w EXCEPT !.R.Bullets[id] = b]
        gone == [w EXCEPT !.R.Bullets = Drop(@, id)]
    IN IF b.Y < 0 \/ b.Y > FieldH \/ b.X < 0 \/ b.X > FieldW THEN {gone}
       ELSE IF b.Type \in {"enemyBullet", "bossBullet"}
       THEN LET hit == {p \in DOMAIN w.R.Players : checkCollision(b, w.R.Players[p])}
            IN IF hit = {} THEN {moved} ELSE {hostileHit(gone, p) : p \in hit}
       ELSE IF b.Type = "bullet"
       THEN IF hasBoss(w.R) /\ checkCollision(b, w.R.Boss)
            THEN {bossHit(gone)}
            ELSE LET hitE == {e \in DOMAIN w.R.Enemies :
                                 checkCollision(b, w.R.Enemies[e])}
                 IN IF hitE = {} THEN {moved}
                    ELSE UNION {enemyKill(gone, b, e) : e \in hitE}
       ELSE {moved}

\* a variant of itemStep that keeps an item that has passed the lower edge
itemStep_Keeps(w, id) ==
    LET i0 == w.R.Items[id]
        it == [i0 EXCEPT !.Y = @ + i0.VY]
        gone == [w EXCEPT !.R.Items = Drop(@, id)]
        hit == {p \in DOMAIN w.R.Players : checkCollision(it, w.R.Players[p])}
    IN IF hit = {} THEN {[w EXCEPT !.R.Items[id] = it]}
       ELSE {[gone EXCEPT !.R.Players[p].FirePower = @ + 1] : p \in hit}

\* a variant of itemStep that grants the item to every player it overlaps
itemStep_Everyone(w, id) ==
    LET i0 == w.R.Items[id]
        it == [i0 EXCEPT !.Y = @ + i0.VY]
        gone == [w EXCEPT !.R.Items = Drop(@, id)]
        hit == {p \in DOMAIN w.R.Players : checkCollision(it, w.R.Players[p])}
    IN IF it.Y > FieldH THEN {gone}
       ELSE IF hit = {} THEN {[w EXCEPT !.R.Items[id] = it]}
       ELSE {[gone EXCEPT !.R.Players =
                 [p \in DOMAIN @ |-> IF p \in hit THEN [@[p] EXCEPT !.FirePower = @ + 1]
                                      ELSE @[p]]]}

itemStep(w, id) ==
    LET i0 == w.R.Items[id]
        it == [i0 EXCEPT !.Y = @ + i0.VY]
        gone == [w EXCEPT !.R.Items = Drop(@, id)]
        hit == {p \in DOMAIN w.R.Players : checkCollision(it, w.R.Players[p])}
    IN IF it.Y > FieldH THEN {gone}
       ELSE IF hit = {} THEN {[w EXCEPT !.R.Items[id] = it]}
       ELSE {[gone EXCEPT !.R.Players[p].FirePower = @ + 1] : p \in hit}

\* a variant of enemyHit that counts the enemy as defeated
enemyHit_Counted(w, p) ==
    LET h == w.R.Players[p].Health - EnemyDamage
        w1 == [w EXCEPT !.R.EnemiesDefeated = @ + 1]
    IN IF h <= 0 THEN checkAllDead([w1 EXCEPT !.R.Players[p].Health = 0, !.crashes = @ + 1])
       ELSE [w1 EXCEPT !.R.Players[p].Health = h, !.crashes = @ + 1]

\* a variant of enemyHit that looks for the end of the game only below 0
enemyHit_Below(w, p) ==
    LET h == w.R.Players[p].Health - EnemyDamage
    IN IF h < 0 THEN checkAllDead([w EXCEPT !.R.Players[p].Health = 0, !.crashes = @ + 1])
       ELSE [w EXCEPT !.R.Players[p].Health = h, !.crashes = @ + 1]

enemyHit(w, p) ==
    LET h == w.R.Players[p].Health - EnemyDamage
    IN IF h <= 0 THEN checkAllDead([w EXCEPT !.R.Players[p].Health = 0, !.crashes = @ + 1])
       ELSE [w EXCEPT !.R.Players[p].Health = h, !.crashes = @ + 1]

enemyStep(w, id) ==
    LET e0 == w.R.Enemies[id]
        e == [e0 EXCEPT !.X = @ + e0.VX, !.Y = @ + e0.VY]
        gone == [w EXCEPT !.R.Enemies = Drop(@, id)]
        hit == {p \in DOMAIN w.R.Players : checkCollision(e, w.R.Players[p])}
    IN IF e.Y > FieldH THEN {gone}
       ELSE IF hit = {} THEN {[w EXCEPT !.R.Enemies[id] = e]}
       ELSE {enemyHit(gone, p) : p \in hit}

\* a pass over a map: every entry present at its start, in any order
RECURSIVE bulletPass(_, _)
bulletPass(W, ids) ==
    IF ids = {} THEN W
    ELSE UNION {bulletPass(UNION {bulletStep(w, id) : w \in W}, ids \ {id}) : id \in ids}

RECURSIVE itemPass(_, _)
itemPass(W, ids) ==
    IF ids = {} THEN W
    ELSE UNION {itemPass(UNION {itemStep(w, id) : w \in W}, ids \ {id}) : id \in ids}

RECURSIVE enemyPass(_, _)
enemyPass(W, ids) ==
    IF ids = {} THEN W
    ELSE UNION {enemyPass(UNION {enemyStep(w, id) : w \in W}, ids \ {id}) : id \in ids}

\* a variant of bossTouch in which the boss is hurt by the contact as well
bossTouch_HurtsBoss(w, p) ==
    LET h == w.R.Players[p].Health - BossDamage
        w1 == [w EXCEPT !.R.Boss.Health = @ - 1]
    IN IF h <= 0 THEN checkAllDead([w1 EXCEPT !.R.Players[p].Health = 0, !.touches = @ + 1])
       ELSE [w1 EXCEPT !.R.Players[p].Health = h, !.touches = @ + 1]

bossTouch(w, p) ==
    LET h == w.R.Players[p].Health - BossDamage
    IN IF h <= 0 THEN checkAllDead([w EXCEPT !.R.Players[p].Health = 0, !.touches = @ + 1])
       ELSE [w EXCEPT !.R.Players[p].Health = h, !.touches = @ + 1]

\* the players the boss body overlaps lose health one after the other; the
\* result does not depend on their order
RECURSIVE bossTouchAll(_, _)
bossTouchAll(w, ps) ==
    IF ps = {} THEN w ELSE bossTouchAll(bossTouch(w, Min(ps)), ps \ {Min(ps)})

\* fire.fire: rand.Intn(60) < 5 came true; fire.vx, fire.vy: the speeds drawn
bossPhase(w, fire) ==
    IF ~hasBoss(w.R) THEN w
    ELSE LET x == w.R.Boss.X + w.R.Boss.VX
             flip == x <= 0 \/ x + w.R.Boss.W >= FieldW
             B == [w.R.Boss EXCEPT !.X = x, !.VX = IF flip THEN 0 - @ ELSE @]
             w1 == [w EXCEPT !.R.Boss = B]
             w2 == IF ~fire.fire THEN w1
                   ELSE [w1 EXCEPT !.fired = @ + 1, !.R.Bullets =
                            @ @@ (FreeId(@, MaxBullets) :> bossBullet(B, fire.vx, fire.vy))]
         IN bossTouchAll(w2, {p \in DOMAIN w2.R.Players :
                                  checkCollision(B, w2.R.Players[p])})

\* a variant of updateGame that does not look at GameState
updateGame_Always(R, F, fire) ==
    LET w0 == [R |-> R, trans |-> <<>>, hits |-> 0, bonus |-> 0,
               shots |-> 0, crashes |-> 0, touches |-> 0, fired |-> Cardinality(F)]
        R1 == enemyFire(movePlayers(R), F)
        W2 == bulletPass({[w0 EXCEPT !.R = R1]}, DOMAIN R1.Bullets)
        W3 == UNION {itemPass({w}, DOMAIN w.R.Items) : w \in W2}
        W4 == UNION {enemyPass({w}, DOMAIN w.R.Enemies) : w \in W3}
    IN {bossPhase(w, fire) : w \in W4}

updateGame(R, F, fire) ==
    LET w0 == [R |-> R, trans |-> <<>>, hits |-> 0, bonus |-> 0,
               shots |-> 0, crashes |-> 0, touches |-> 0, fired |-> Cardinality(F)]
    IN IF R.GameState # "playing" THEN {[w0 EXCEPT !.fired = 0]}
       ELSE LET R1 == enemyFire(movePlayers(R), F)
                W2 == bulletPass({[w0 EXCEPT !.R = R1]}, DOMAIN R1.Bullets)
                W3 == UNION {itemPass({w}, DOMAIN w.R.Items) : w \in W2}
                W4 == UNION {enemyPass({w}, DOMAIN w.R.Enemies) : w \in W3}
            IN {bossPhase(w, fire) : w \in W4}

----------------------------------------------------------------------------
(* Inputs *)

\* spawn points of a player, in pixels (300 + rand.Intn(300) each way)
SpawnPts == {<<300, 300>>}

\* the least and the greatest spawn coordinates
SpawnEnds == {<<300, 300>>, <<300, 599>>, <<599, 300>>, <<599, 599>>}

\* the move messages clients send: each of vx, vy is a number or is missing
Num(v) == [ok |-> TRUE, v |-> Px(v)]
Missing == [ok |-> FALSE, v |-> 0]
Moves ==
    {[vx |-> Missing, vy |-> Num(0 - 1)],
     [vx |-> Num(0 - 900), vy |-> Num(900)], [vx |-> Num(900), vy |-> Num(0 - 900)]}

\* what createEnemy draws: x, vx, vy
EnemyDraws == {<<300, 0, 1>>}

\* what the boss draws when it fires
BossFires == {[fire |-> FALSE, vx |-> 0, vy |-> 0], [fire |-> TRUE, vx |-> 0, vy |-> 2]}

----------------------------------------------------------------------------
(* History *)

Ev(op, r, s) ==
    [op |-> op, room |-> r, sess |-> s, pre |-> "", trans |-> <<>>, hits |-> 0, bonus |-> 0,
     shots |-> 0, crashes |-> 0, touches |-> 0, fired |-> 0]

NoEv == Ev("none", 0, 0)

NoSnap == [held |-> FALSE]

----------------------------------------------------------------------------
(* handleWebSocket: one call per session *)

idleSession == [pc |-> "idle", room |-> 0, i |-> 0, vy |-> 0]

numPlayers(r) == Cardinality(DOMAIN rooms[r].Players)

\* a variant of openRooms that does not count the players
openRooms_AnySize == {r \in gameRooms : rooms[r].GameState = "playing"}

\* the rooms the scan of the registry may pick
openRooms == {r \in gameRooms : numPlayers(r) < MaxPlayers /\ rooms[r].GameState = "playing"}

\* the session is entered in the clients map and a room is found or created,
\* under gamesMutex
\* clientsMutex is held from before the first WriteJSON of a broadcast until
\* after the last one
clientsMutexFree == \A r \in DOMAIN loop : loop[r] # "sending"

Connect(s) ==
    /\ sess[s].pc = "idle"
    /\ clientsMutexFree
    /\ clients' = clients \cup {s}
    /\ IF openRooms # {}
       THEN /\ \E r \in openRooms : sess' = [sess EXCEPT ![s].pc = "selected", ![s].room = r]
            /\ UNCHANGED <<gameRooms, rooms, loop, snap>>
       ELSE /\ Len(rooms) < MaxRooms
            /\ rooms' = Append(rooms, newGameRoom)
            /\ loop' = Append(loop, "select")
            /\ snap' = Append(snap, NoSnap)
            /\ gameRooms' = gameRooms \cup {Len(rooms) + 1}
            /\ sess' = [sess EXCEPT ![s].pc = "selected", ![s].room = Len(rooms) + 1]
    /\ ev' = NoEv
    /\ UNCHANGED clock

\* the player is put in the room's player map, under the room's lock
admit(s, pts) ==
    /\ sess[s].pc = "selected"
    /\ \E pt \in pts :
          rooms' = [rooms EXCEPT ![sess[s].room].Players = @ @@ (s :> newPlayer(pt[1], pt[2]))]
    /\ sess' = [sess EXCEPT ![s].pc = "loop"]
    /\ ev' = Ev("join", sess[s].room, s)
    /\ UNCHANGED <<gameRooms, loop, clients, clock, snap>>

AddPlayer(s) == admit(s, SpawnPts)

\* the same with the player created at either end of what rand.Intn(300)
\* can give
AddPlayerAnywhere(s) == admit(s, SpawnEnds)

\* the player is put in the room's player map and then the write of the init
\* message fails: the handler returns the error, with nothing undone
InitWriteFails(s) ==
    /\ sess[s].pc = "selected"
    /\ \E pt \in SpawnPts :
          rooms' = [rooms EXCEPT ![sess[s].room].Players = @ @@ (s :> newPlayer(pt[1], pt[2]))]
    /\ sess' = [sess EXCEPT ![s].pc = "failed"]
    /\ ev' = Ev("join", sess[s].room, s)
    /\ UNCHANGED <<gameRooms, loop, clients, clock, snap>>

\* a variant of Disconnect that takes every player of the room with it
Disconnect_Everyone(s) ==
    /\ sess[s].pc = "loop"
    /\ clientsMutexFree
    /\ rooms' = [rooms EXCEPT ![sess[s].room].Players = <<>>]
    /\ clients' = clients \ {s}
    /\ sess' = [sess EXCEPT ![s].pc = "closed"]
    /\ ev' = Ev("leave", sess[s].room, s)
    /\ UNCHANGED <<gameRooms, loop, clock, snap>>

\* ReadJSON fails: the player leaves the room and the session the clients map
Disconnect(s) ==
    /\ sess[s].pc = "loop"
    /\ clientsMutexFree
    /\ rooms' = [rooms EXCEPT ![sess[s].room].Players = Drop(@, s)]
    /\ clients' = clients \ {s}
    /\ sess' = [sess EXCEPT ![s].pc = "closed"]
    /\ ev' = Ev("leave", sess[s].room, s)
    /\ UNCHANGED <<gameRooms, loop, clock, snap>>

\* the same in its two critical sections: the player is deleted under the
\* room's lock
Leave(s) ==
    /\ sess[s].pc = "loop"
    /\ rooms' = [rooms EXCEPT ![sess[s].room].Players = Drop(@, s)]
    /\ sess' = [sess EXCEPT ![s].pc = "leaving"]
    /\ ev' = Ev("leave", sess[s].room, s)
    /\ UNCHANGED <<gameRooms, loop, clients, clock, snap>>

\* and the client is deleted under clientsMutex
Unregister(s) ==
    /\ sess[s].pc = "leaving"
    /\ clientsMutexFree
    /\ clients' = clients \ {s}
    /\ sess' = [sess EXCEPT ![s].pc = "closed"]
    /\ ev' = NoEv
    /\ UNCHANGED <<gameRooms, rooms, loop, clock, snap>>

\* "move": VelocityX is written, then VelocityY, neither under the lock; a
\* message with both is two writes, and the second is a step of its own
Move(s) ==
    /\ sess[s].pc = "loop"
    /\ \E m \in Moves :
          LET r == sess[s].room
              R1 == IF m.vx.ok THEN [rooms EXCEPT ![r].Players[s].VX = m.vx.v] ELSE rooms
          IN IF m.vx.ok /\ m.vy.ok
             THEN /\ rooms' = R1
                  /\ sess' = [sess EXCEPT ![s].pc = "moveVy", ![s].vy = m.vy.v]
             ELSE /\ rooms' = IF m.vy.ok THEN [R1 EXCEPT ![r].Players[s].VY = m.vy.v] ELSE R1
                  /\ UNCHANGED sess
    /\ ev' = NoEv
    /\ UNCHANGED <<gameRooms, loop, clients, clock, snap>>

MoveVy(s) ==
    /\ sess[s].pc = "moveVy"
    /\ rooms' = [rooms EXCEPT ![sess[s].room].Players[s].VY = sess[s].vy]
    /\ sess' = [sess EXCEPT ![s].pc = "loop", ![s].vy = 0]
    /\ ev' = NoEv
    /\ UNCHANGED <<gameRooms, loop, clients, clock, snap>>

\* "shoot": createBullet reads GameState without the lock
Shoot(s) ==
    /\ sess[s].pc = "loop"
    /\ IF rooms[sess[s].room].GameState # "playing"
       THEN /\ ev' = Ev("shootIgnored", sess[s].room, s)
            /\ UNCHANGED sess
       ELSE /\ ev' = NoEv
            /\ sess' = [sess EXCEPT ![s].pc = "shoot", ![s].i = 0]
    /\ UNCHANGED <<gameRooms, rooms, loop, clients, clock, snap>>

\* one turn of createBullet's loop: bullet i is made from the player's
\* position as it is now and put in the bullet map under the lock; the loop
\* ends when i reaches FirePower
ShootInsert(s) ==
    LET r == sess[s].room
        p == rooms[r].Players[s]
    IN /\ sess[s].pc = "shoot"
       /\ Cardinality(DOMAIN rooms[r].Bullets) < MaxBullets
       /\ rooms' = [rooms EXCEPT ![r] = insertBullet(@, s, sess[s].i, MaxBullets)]
       /\ sess' = IF sess[s].i + 1 < p.FirePower
                  THEN [sess EXCEPT ![s].i = @ + 1]
                  ELSE [sess EXCEPT ![s].pc = "loop", ![s].i = 0]
       /\ ev' = [Ev("bullet", r, s) EXCEPT !.pre = rooms[r].GameState]
       /\ UNCHANGED <<gameRooms, loop, clients, clock, snap>>

\* "shoot" handled with no step of another task before createBullet returns
Volley(s) ==
    LET r == sess[s].room
    IN /\ sess[s].pc = "loop"
       /\ Cardinality(DOMAIN rooms[r].Bullets) + rooms[r].Players[s].FirePower <= MaxVolley
       /\ rooms' = [rooms EXCEPT ![r] = createBullet(@, s, MaxVolley)]
       /\ ev' = [Ev("volley", r, s) EXCEPT !.pre = rooms[r].GameState]
       /\ UNCHANGED <<gameRooms, loop, sess, clients, clock, snap>>

\* "restart": GameState is read without the lock
RestartCheck(s) ==
    /\ sess[s].pc = "loop"
    /\ IF rooms[sess[s].room].GameState \in {"gameover", "clear"}
       THEN /\ sess' = [sess EXCEPT ![s].pc = "restart"]
            /\ ev' = NoEv
       ELSE /\ ev' = Ev("restartIgnored", sess[s].room, s)
            /\ UNCHANGED sess
    /\ UNCHANGED <<gameRooms, rooms, loop, clients, clock, snap>>

\* a variant of resetPlayers that leaves the score as it is
resetPlayers_KeepScore(P, pts) ==
    [q \in DOMAIN P |->
        [P[q] EXCEPT !.Health = FullHealth, !.X = Px(pts[q][1]), !.Y = Px(pts[q][2])]]

resetPlayers(P, pts) ==
    [q \in DOMAIN P |->
        [P[q] EXCEPT !.Health = FullHealth, !.Score = 0,
                     !.X = Px(pts[q][1]), !.Y = Px(pts[q][2])]]

resetRoom(R, pts) ==
    [R EXCEPT !.GameState = "playing", !.EnemiesDefeated = 0, !.BossSpawned = FALSE,
              !.Boss = NoBoss, !.Enemies = <<>>, !.Bullets = <<>>,
              !.Players = resetPlayers(@, pts)]

\* then the room is reset under the lock
RestartApply(s) ==
    LET r == sess[s].room
    IN /\ sess[s].pc = "restart"
       /\ \E pts \in [DOMAIN rooms[r].Players -> SpawnPts] :
             rooms' = [rooms EXCEPT ![r] = resetRoom(@, pts)]
       /\ sess' = [sess EXCEPT ![s].pc = "loop"]
       /\ ev' = [Ev("restart", r, s) EXCEPT !.pre = rooms[r].GameState]
       /\ UNCHANGED <<gameRooms, loop, clients, clock, snap>>

----------------------------------------------------------------------------
(* gameLoop: one goroutine per room *)

\* case <-ticker.C: updateGame, under the room's lock.  The clock counts the
\* ticks that change the room; a tick that changes nothing is always possible.
tickWithin(r, cap) ==
    /\ loop[r] = "select"
    /\ \E F \in SUBSET DOMAIN rooms[r].Enemies, fire \in BossFires :
          /\ Cardinality(DOMAIN rooms[r].Bullets) + Cardinality(F)
                + (IF fire.fire THEN 1 ELSE 0) <= MaxBullets
          /\ \E w \in updateGame(rooms[r], F, fire) :
                /\ w.R # rooms[r] => clock < cap
                /\ rooms' = [rooms EXCEPT ![r] = w.R]
                /\ clock' = IF w.R # rooms[r] THEN clock + 1 ELSE clock
                /\ ev' = [Ev("tick", r, 0) EXCEPT !.pre = rooms[r].GameState,
                             !.trans = w.trans, !.hits = w.hits, !.bonus = w.bonus,
                             !.shots = w.shots, !.crashes = w.crashes,
                             !.touches = w.touches, !.fired = w.fired]
    /\ loop' = [loop EXCEPT ![r] = "broadcast"]
    /\ UNCHANGED <<gameRooms, sess, clients, snap>>

Tick(r) == tickWithin(r, MaxTicks)

\* the same for as many ticks as an entity needs to cross what is left of
\* the field
Fall(r) == tickWithin(r, MaxFall)

\* broadcastGameState builds the state map under the room's lock: GameState and
\* EnemiesDefeated are copied into it, the player, bullet, enemy and item maps
\* and the boss are put in it by reference
stateMap(R) == [held |-> TRUE, at |-> R]

\* what WriteJSON encodes: the copied values as they were under the lock, the
\* referenced maps and objects as they are when the message is encoded
message(S, R) ==
    [players |-> R.Players, bullets |-> R.Bullets, enemies |-> R.Enemies,
     boss |-> R.Boss, items |-> R.Items,
     gameState |-> S.at.GameState, enemiesDefeated |-> S.at.EnemiesDefeated]

sendEv(r, S, R) == Ev("send", r, 0) @@ [msg |-> message(S, R), at |-> S.at]

\* broadcastGameState with no step of another task between the unlock and the
\* end of the sends
Broadcast(r) ==
    /\ loop[r] = "broadcast"
    /\ clientsMutexFree
    /\ loop' = [loop EXCEPT ![r] = "check"]
    /\ ev' = sendEv(r, stateMap(rooms[r]), rooms[r])
    /\ UNCHANGED <<gameRooms, rooms, sess, clients, clock, snap>>

\* broadcastGameState in its two parts: the state map is built under the lock
Snapshot(r) ==
    /\ loop[r] = "broadcast"
    /\ snap' = [snap EXCEPT ![r] = stateMap(rooms[r])]
    /\ loop' = [loop EXCEPT ![r] = "send"]
    /\ ev' = NoEv
    /\ UNCHANGED <<gameRooms, rooms, sess, clients, clock>>

\* and the message is encoded and written after the lock is released (no
\* restart replaces the bullet and enemy maps in between where this is used)
Send(r) ==
    /\ loop[r] = "send"
    /\ ev' = sendEv(r, snap[r], rooms[r])
    /\ snap' = [snap EXCEPT ![r] = NoSnap]
    /\ loop' = [loop EXCEPT ![r] = "check"]
    /\ UNCHANGED <<gameRooms, rooms, sess, clients, clock>>

\* the second part taken apart: clientsMutex is locked
LockClients(r) ==
    /\ loop[r] = "send"
    /\ clientsMutexFree
    /\ loop' = [loop EXCEPT ![r] = "sending"]
    /\ ev' = NoEv
    /\ UNCHANGED <<gameRooms, rooms, sess, clients, clock, snap>>

\* the clients the loop over the clients map writes to
recipients_All(r) == clients

recipients(r) == {s \in clients : sess[s].room = r}

\* the message is written to the sessions of to, the writes to those of failed
\* return an error, and clientsMutex is unlocked
deliver(r, to, failed) ==
    /\ loop[r] = "sending"
    /\ ev' = sendEv(r, snap[r], rooms[r]) @@ [to |-> to, failed |-> failed]
    /\ snap' = [snap EXCEPT ![r] = NoSnap]
    /\ loop' = [loop EXCEPT ![r] = "check"]
    /\ UNCHANGED <<gameRooms, rooms, sess, clients, clock>>

\* a variant of Deliver whose loop over the clients ends at the first error
Deliver_StopsAtFailure(r) ==
    \E failed \in SUBSET recipients(r) :
        deliver(r, IF failed = {} THEN recipients(r)
                   ELSE {s \in recipients(r) : s <= Min(failed)}, failed)

\* a variant of Deliver that waits until no other loop asks for clientsMutex
Deliver_AfterWaiters(r) ==
    /\ \A q \in DOMAIN loop : loop[q] # "send"
    /\ \E failed \in SUBSET recipients(r) : deliver(r, recipients(r), failed)

\* every WriteJSON returns, with an error or without: an error is logged
Deliver(r) ==
    \E failed \in SUBSET recipients(r) : deliver(r, recipients(r), failed)

\* a variant of LoopCheck that leaves the retired room in the registry
LoopCheck_KeepRegistered(r) ==
    /\ loop[r] = "check"
    /\ loop' = [loop EXCEPT ![r] = IF numPlayers(r) = 0 THEN "stopped" ELSE "select"]
    /\ ev' = IF numPlayers(r) = 0 THEN Ev("retire", r, 0) ELSE NoEv
    /\ UNCHANGED <<gameRooms, rooms, sess, clients, clock, snap>>

\* after the tick: len(gameRoom.Players) is read without the room's lock; an
\* empty room is deleted from the registry and the goroutine returns
LoopCheck(r) ==
    /\ loop[r] = "check"
    /\ IF numPlayers(r) = 0
       THEN /\ gameRooms' = gameRooms \ {r}
            /\ loop' = [loop EXCEPT ![r] = "stopped"]
            /\ ev' = Ev("retire", r, 0)
       ELSE /\ loop' = [loop EXCEPT ![r] = "select"]
            /\ ev' = NoEv
            /\ UNCHANGED gameRooms
    /\ UNCHANGED <<rooms, sess, clients, clock, snap>>

\* case <-enemyTicker.C: the branch is chosen from reads made without the lock
Spawn(r) ==
    /\ loop[r] = "select"
    /\ rooms[r].GameState = "playing"
    /\ loop' = [loop EXCEPT ![r] =
                   IF rooms[r].EnemiesDefeated >= BossThreshold /\ ~rooms[r].BossSpawned
                   THEN "createBoss" ELSE "createEnemy"]
    /\ ev' = NoEv
    /\ UNCHANGED <<gameRooms, rooms, sess, clients, clock, snap>>

\* a variant of CreateEnemy that does not look at BossSpawned
CreateEnemy_NoFlagCheck(r) ==
    /\ loop[r] = "createEnemy"
    /\ loop' = [loop EXCEPT ![r] =
                   IF rooms[r].GameState # "playing" THEN "select" ELSE "insertEnemy"]
    /\ ev' = NoEv
    /\ UNCHANGED <<gameRooms, rooms, sess, clients, clock, snap>>

\* createEnemy reads GameState and BossSpawned again, still without the lock
CreateEnemy(r) ==
    /\ loop[r] = "createEnemy"
    /\ loop' = [loop EXCEPT ![r] =
                   IF rooms[r].GameState # "playing" \/ rooms[r].BossSpawned
                   THEN "select" ELSE "insertEnemy"]
    /\ ev' = NoEv
    /\ UNCHANGED <<gameRooms, rooms, sess, clients, clock, snap>>

createBoss(R) == [R EXCEPT !.Boss = newBoss, !.BossSpawned = TRUE]

CreateBoss(r) ==
    /\ loop[r] = "createBoss"
    /\ rooms' = [rooms EXCEPT ![r] = createBoss(@)]
    /\ loop' = [loop EXCEPT ![r] = "select"]
    /\ ev' = [Ev("boss", r, 0) EXCEPT !.pre = rooms[r].GameState]
    /\ UNCHANGED <<gameRooms, sess, clients, clock, snap>>

InsertEnemy(r) ==
    /\ loop[r] = "insertEnemy"
    /\ Cardinality(DOMAIN rooms[r].Enemies) + Cardinality(DOMAIN rooms[r].Items) < MaxEntities
    /\ \E d \in EnemyDraws :
          rooms' = [rooms EXCEPT ![r].Enemies =
                       @ @@ (FreeId(@, MaxEntities) :> newEnemy(d[1], d[2], d[3]))]
    /\ loop' = [loop EXCEPT ![r] = "select"]
    /\ ev' = [Ev("enemy", r, 0) EXCEPT !.pre = rooms[r].GameState]
    /\ UNCHANGED <<gameRooms, sess, clients, clock, snap>>

----------------------------------------------------------------------------
(* The server after construction *)

InitFresh ==
    /\ gameRooms = {}
    /\ rooms = <<>>
    /\ loop = <<>>
    /\ sess = [s \in 1..NumSessions |-> idleSession]
    /\ clients = {}
    /\ snap = <<>>
    /\ clock = 0
    /\ ev = NoEv

(* A room some way into a play-through.  Two players stand under the boss's *)
(* row, the first level with its lower edge and the second one pixel into  *)
(* it; each is unhurt or has 10 health left.  The twentieth enemy has been *)
(* destroyed: the boss is about to appear, or it is there with one or two  *)
(* hits left.  An enemy spawned before the boss may be coming down on the  *)
(* players, and an item may be falling elsewhere.  While the boss has not   *)
(* appeared, a restart message of the second session may be waiting for    *)
(* the room's lock: it was let through when an earlier play-through had    *)
(* ended (GameState is read without the lock) and another session's        *)
(* restart was applied first.  Each of these states is reached from        *)
(* InitFresh by the steps of the program.                                  *)

arenaPlayer(q, h) == [newPlayer(380, 131 - q) EXCEPT !.Health = h]
ArenaHealths == {FullHealth, EnemyDamage}
ArenaBosses == {NoBoss, [newBoss EXCEPT !.Health = 1], [newBoss EXCEPT !.Health = 2]}
arenaEnemy == [newEnemy(380, 0, 1) EXCEPT !.Y = Px(110)]
lowEnemy == [newEnemy(100, 0, 1) EXCEPT !.Y = FieldH]
arenaItem == newItem([X |-> Px(380), Y |-> Px(115)])

InitArena ==
    /\ gameRooms = {1}
    /\ loop = <<"select">>
    /\ clients = 1..NumSessions
    /\ snap = <<NoSnap>>
    /\ \E hs \in [1..NumSessions -> ArenaHealths], boss \in ArenaBosses,
          en \in {<<>>, <<arenaEnemy>>, <<lowEnemy>>}, it \in {<<>>, <<arenaItem>>},
          late \in BOOLEAN :
          /\ late => boss.Type = "none"
          /\ sess = [s \in 1..NumSessions |->
                        [idleSession EXCEPT !.room = 1,
                            !.pc = IF late /\ s = NumSessions THEN "restart" ELSE "loop"]]
          /\ rooms = <<[newGameRoom EXCEPT
                          !.Players = [q \in 1..NumSessions |-> arenaPlayer(q, hs[q])],
                          !.Boss = boss, !.BossSpawned = (boss.Type = "boss"),
                          !.EnemiesDefeated = BossThreshold,
                          !.Enemies = en, !.Items = it]>>
    /\ clock = 0
    /\ ev = NoEv

Init == InitFresh \/ InitArena

Next ==
    \/ \E s \in DOMAIN sess : Connect(s)
    \/ \E s \in DOMAIN sess : AddPlayer(s)
    \/ \E s \in DOMAIN sess : Disconnect(s)
    \/ \E s \in DOMAIN sess : Shoot(s)
    \/ \E s \in DOMAIN sess : ShootInsert(s)
    \/ \E s \in DOMAIN sess : RestartCheck(s)
    \/ \E s \in DOMAIN sess : RestartApply(s)
    \/ \E r \in DOMAIN rooms : Tick(r)
    \/ \E r \in DOMAIN rooms : Broadcast(r)
    \/ \E r \in DOMAIN rooms : LoopCheck(r)
    \/ \E r \in DOMAIN rooms : Spawn(r)
    \/ \E r \in DOMAIN rooms : CreateEnemy(r)
    \/ \E r \in DOMAIN rooms : CreateBoss(r)
    \/ \E r \in DOMAIN rooms : InsertEnemy(r)

Spec == Init /\ [][Next]_vars

(* Admission and retirement alone, with more sessions than a room may hold *)

InitAdmit ==
    /\ gameRooms = {}
    /\ rooms = <<>>
    /\ loop = <<>>
    /\ sess = [s \in 1..AdmitSessions |-> idleSession]
    /\ clients = {}
    /\ snap = <<>>
    /\ clock = 0
    /\ ev = NoEv

NextAdmit ==
    \/ \E s \in DOMAIN sess : Connect(s)
    \/ \E s \in DOMAIN sess : AddPlayer(s)
    \/ \E s \in DOMAIN sess : Disconnect(s)
    \/ \E r \in DOMAIN rooms : Tick(r)
    \/ \E r \in DOMAIN rooms : Broadcast(r)
    \/ \E r \in DOMAIN rooms : LoopCheck(r)

\* a room whose only player has died: the game is over there and the other
\* sessions have yet to connect
InitOverWith(n) ==
    /\ gameRooms = {1}
    /\ rooms = <<[newGameRoom EXCEPT
                    !.Players = 1 :> [newPlayer(300, 300) EXCEPT !.Health = 0],
                    !.GameState = "gameover"]>>
    /\ loop = <<"select">>
    /\ sess = [s \in 1..n |->
                  IF s = 1 THEN [idleSession EXCEPT !.pc = "loop", !.room = 1]
                  ELSE idleSession]
    /\ clients = {1}
    /\ snap = <<NoSnap>>
    /\ clock = 0
    /\ ev = NoEv

InitOver == InitOverWith(AdmitSessions)

InitAdmission == InitAdmit \/ InitOver

SpecAdmit == InitAdmission /\ [][NextAdmit]_vars

(* The broadcast with its lock on the clients map: sessions come and go    *)
(* while the loops of one or two rooms build their state map, lock the     *)
(* clients map, write to their sessions and unlock                         *)

InitWire == InitFresh \/ InitOverWith(NumSessions)

NextWire ==
    \/ \E s \in DOMAIN sess : Connect(s)
    \/ \E s \in DOMAIN sess : AddPlayer(s)
    \/ \E s \in DOMAIN sess : Leave(s)
    \/ \E s \in DOMAIN sess : Unregister(s)
    \/ \E s \in DOMAIN sess : Shoot(s)
    \/ \E s \in DOMAIN sess : ShootInsert(s)
    \/ \E r \in DOMAIN rooms : Tick(r)
    \/ \E r \in DOMAIN rooms : Snapshot(r)
    \/ \E r \in DOMAIN rooms : LockClients(r)
    \/ \E r \in DOMAIN rooms : Deliver(r)
    \/ \E r \in DOMAIN rooms : LoopCheck(r)

SpecWire == InitWire /\ [][NextWire]_vars

\* the writes return, and a goroutine that asks for a mutex that is unlocked
\* again and again gets it
WireFair ==
    /\ \A r \in 1..MaxRooms :
          /\ WF_vars(r \in DOMAIN rooms /\ Deliver(r))
          /\ SF_vars(r \in DOMAIN rooms /\ LockClients(r))
    /\ \A s \in 1..NumSessions : SF_vars(Unregister(s))

SpecWireFair == InitWire /\ [][NextWire]_vars /\ WireFair

(* Sessions whose transport fails, on the first write or on a later read *)

NextDrop ==
    \/ \E s \in DOMAIN sess : Connect(s)
    \/ \E s \in DOMAIN sess : AddPlayer(s)
    \/ \E s \in DOMAIN sess : InitWriteFails(s)
    \/ \E s \in DOMAIN sess : Disconnect(s)
    \/ \E r \in DOMAIN rooms : Tick(r)
    \/ \E r \in DOMAIN rooms : Broadcast(r)
    \/ \E r \in DOMAIN rooms : LoopCheck(r)

SpecDrop == InitFresh /\ [][NextDrop]_vars

(* Admission with the spawn point drawn from the ends of its range *)

NextSpawn ==
    \/ \E s \in DOMAIN sess : Connect(s)
    \/ \E s \in DOMAIN sess : AddPlayerAnywhere(s)
    \/ \E s \in DOMAIN sess : Disconnect(s)
    \/ \E r \in DOMAIN rooms : Tick(r)
    \/ \E r \in DOMAIN rooms : Broadcast(r)
    \/ \E r \in DOMAIN rooms : LoopCheck(r)

SpecSpawn == InitFresh /\ [][NextSpawn]_vars

(* Collisions alone: one or two players who have been run into by enemies  *)
(* some number of times, and enemies that are about to run into them (at   *)
(* the same height, so that the second one overlaps both players) or that  *)
(* come down elsewhere; nobody shoots                                      *)

CrashHealths == {EnemyDamage * k : k \in 1..(FullHealth \div EnemyDamage)}

CrashEnemies ==
    {<<arenaEnemy>>, <<arenaEnemy, [arenaEnemy EXCEPT !.X = Px(370)]>>,
     <<[arenaEnemy EXCEPT !.X = Px(100)]>>}

InitCrash ==
    /\ gameRooms = {1}
    /\ loop = <<"select">>
    /\ snap = <<NoSnap>>
    /\ \E np \in 1..NumSessions, en \in CrashEnemies :
          /\ sess = [s \in 1..NumSessions |->
                        IF s <= np THEN [idleSession EXCEPT !.pc = "loop", !.room = 1]
                        ELSE idleSession]
          /\ clients = 1..np
          /\ \E hs \in [1..np -> CrashHealths] :
                rooms = <<[newGameRoom EXCEPT
                             !.Players = [q \in 1..np |-> arenaPlayer(1, hs[q])],
                             !.Enemies = en]>>
    /\ clock = 0
    /\ ev = NoEv

NextCrash ==
    \/ \E r \in DOMAIN rooms : Tick(r)
    \/ \E r \in DOMAIN rooms : Broadcast(r)
    \/ \E r \in DOMAIN rooms : LoopCheck(r)

SpecCrash == InitCrash /\ [][NextCrash]_vars

(* Rectangles: one player and one enemy that comes down to a position     *)
(* beside, on or just off the player, edge to edge included               *)

EdgeShifts == {0 - 31, 0 - 30, 0 - 29, 0, 29, 30, 31}

InitEdge ==
    /\ gameRooms = {1}
    /\ loop = <<"select">>
    /\ snap = <<NoSnap>>
    /\ sess = [s \in 1..NumSessions |->
                  IF s = 1 THEN [idleSession EXCEPT !.pc = "loop", !.room = 1]
                  ELSE idleSession]
    /\ clients = {1}
    /\ \E dx \in EdgeShifts, dy \in EdgeShifts :
          rooms = <<[newGameRoom EXCEPT
                       !.Players = 1 :> arenaPlayer(1, FullHealth),
                       !.Enemies = <<[newEnemy(380 + dx, 0, 1) EXCEPT !.Y = Px(129 + dy)]>>]>>
    /\ clock = 0
    /\ ev = NoEv

SpecEdge == InitEdge /\ [][NextCrash]_vars

(* Friendly fire alone: a player standing aside, one or two of its bullets *)
(* in flight (about to leave the field at the top while over an enemy,     *)
(* about to reach an enemy, or in the open) and no, one or two enemies     *)
(* that have just come in at the top, the second one over the first        *)

killBullet(x, y) == playerBullet(newPlayer(x, y), 0)

KillBullets ==
    {<<killBullet(100, 2)>>, <<killBullet(100, 20)>>, <<killBullet(100, 100)>>,
     <<killBullet(100, 20), killBullet(102, 20)>>}

KillEnemies == {<<>>, <<newEnemy(100, 0, 1)>>, <<newEnemy(100, 0, 1), newEnemy(105, 1, 2)>>}

InitKill ==
    /\ gameRooms = {1}
    /\ loop = <<"select">>
    /\ snap = <<NoSnap>>
    /\ sess = [s \in 1..NumSessions |->
                  IF s = 1 THEN [idleSession EXCEPT !.pc = "loop", !.room = 1]
                  ELSE idleSession]
    /\ clients = {1}
    /\ \E bs \in KillBullets, en \in KillEnemies :
          rooms = <<[newGameRoom EXCEPT
                       !.Players = 1 :> arenaPlayer(1, FullHealth),
                       !.Bullets = bs, !.Enemies = en]>>
    /\ clock = 0
    /\ ev = NoEv

SpecKill == InitKill /\ [][NextCrash]_vars

(* Entities on their way out: a player standing aside, and any of a        *)
(* bullet going up, an item and an enemy going down, each in a column of   *)
(* its own and some way from the edge it is heading for; the enemy may     *)
(* fire on its way                                                         *)

fallBullet == killBullet(200, 60)
fallItem == newItem([X |-> Px(300), Y |-> Px(560)])
fallEnemy == [newEnemy(100, 0, 2) EXCEPT !.Y = Px(540)]

InitFall ==
    /\ gameRooms = {1}
    /\ loop = <<"select">>
    /\ snap = <<NoSnap>>
    /\ sess = [s \in 1..NumSessions |->
                  IF s = 1 THEN [idleSession EXCEPT !.pc = "loop", !.room = 1]
                  ELSE idleSession]
    /\ clients = {1}
    /\ \E bs \in {<<>>, <<fallBullet>>}, it \in {<<>>, <<fallItem>>},
          en \in {<<>>, <<fallEnemy>>} :
          rooms = <<[newGameRoom EXCEPT
                       !.Players = 1 :> arenaPlayer(1, FullHealth),
                       !.Bullets = bs, !.Items = it, !.Enemies = en]>>
    /\ clock = 0
    /\ ev = NoEv

NextFall ==
    \/ \E r \in DOMAIN rooms : Fall(r)
    \/ \E r \in DOMAIN rooms : Broadcast(r)
    \/ \E r \in DOMAIN rooms : LoopCheck(r)

\* the ticker fires for as long as the loop runs
FallFair(r) ==
    /\ WF_vars(r \in DOMAIN rooms /\ Fall(r))
    /\ WF_vars(r \in DOMAIN rooms /\ Broadcast(r))
    /\ WF_vars(r \in DOMAIN rooms /\ LoopCheck(r))

SpecFall == InitFall /\ [][NextFall]_vars /\ \A r \in 1..MaxRooms : FallFair(r)

(* Shooting alone: a room whose players have picked up items, so that      *)
(* their fire-power is anything from 1 up, and stand left, middle or right *)

ShootXs == {0, 385, 770}

InitShoot ==
    /\ gameRooms = {1}
    /\ loop = <<"select">>
    /\ sess = [s \in 1..NumSessions |-> [idleSession EXCEPT !.pc = "loop", !.room = 1]]
    /\ clients = 1..NumSessions
    /\ snap = <<NoSnap>>
    /\ \E fp \in [1..NumSessions -> 1..MaxFirePower], x \in [1..NumSessions -> ShootXs],
          st \in {"playing", "gameover", "clear"} :
          rooms = <<[newGameRoom EXCEPT
                       !.Players = [q \in 1..NumSessions |->
                                       [newPlayer(x[q], 300) EXCEPT !.FirePower = fp[q]]],
                       !.GameState = st]>>
    /\ clock = 0
    /\ ev = NoEv

NextShoot == \E s \in DOMAIN sess : Volley(s)

SpecShoot == InitShoot /\ [][NextShoot]_vars

(* Moving alone: sessions connect, steer and are ticked *)

NextMove ==
    \/ \E s \in DOMAIN sess : Connect(s)
    \/ \E s \in DOMAIN sess : AddPlayer(s)
    \/ \E s \in DOMAIN sess : Move(s)
    \/ \E s \in DOMAIN sess : MoveVy(s)
    \/ \E r \in DOMAIN rooms : Tick(r)
    \/ \E r \in DOMAIN rooms : Broadcast(r)
    \/ \E r \in DOMAIN rooms : LoopCheck(r)

SpecMove == InitFresh /\ [][NextMove]_vars

(* Broadcasting in its two parts, with sessions that connect and shoot *)

NextCast ==
    \/ \E s \in DOMAIN sess : Connect(s)
    \/ \E s \in DOMAIN sess : AddPlayer(s)
    \/ \E s \in DOMAIN sess : Shoot(s)
    \/ \E s \in DOMAIN sess : ShootInsert(s)
    \/ \E r \in DOMAIN rooms : Tick(r)
    \/ \E r \in DOMAIN rooms : Snapshot(r)
    \/ \E r \in DOMAIN rooms : Send(r)
    \/ \E r \in DOMAIN rooms : LoopCheck(r)

SpecCast == InitFresh /\ [][NextCast]_vars

(* The same steps with two sessions, the game loops scheduled fairly: the  *)
(* tickers fire for as long as the loop runs, and the loop's goroutine is  *)
(* not starved.                                                            *)

LoopFair(r) ==
    /\ WF_vars(r \in DOMAIN rooms /\ Tick(r))
    /\ WF_vars(r \in DOMAIN rooms /\ Broadcast(r))
    /\ WF_vars(r \in DOMAIN rooms /\ LoopCheck(r))

SpecLive == InitFresh /\ [][NextAdmit]_vars /\ \A r \in 1..MaxRooms : LoopFair(r)

----------------------------------------------------------------------------
(* Properties *)

Terminal == {"gameover", "clear"}

friendly(R) == {b \in DOMAIN R.Bullets : R.Bullets[b].Type = "bullet"}

hostile(R) == {b \in DOMAIN R.Bullets : R.Bullets[b].Type \in {"enemyBullet", "bossBullet"}}

RECURSIVE sumOver(_, _, _)
sumOver(P, S, field) ==
    IF S = {} THEN 0
    ELSE LET q == CHOOSE x \in S : TRUE
         IN (IF field = "Health" THEN P[q].Health
             ELSE IF field = "FirePower" THEN P[q].FirePower
             ELSE P[q].Score) + sumOver(P, S \ {q}, field)

totalHealth(R) == sumOver(R.Players, DOMAIN R.Players, "Health")

totalPower(R) == sumOver(R.Players, DOMAIN R.Players, "FirePower")

totalScore(R) == sumOver(R.Players, DOMAIN R.Players, "Score")

\* C1: every room's player map holds at most 4 players, in every reachable
\* state and under any interleaving of connection handlers, disconnects and
\* ticks.
C1_AtMostFourPlayers ==
    \A r \in DOMAIN rooms : numPlayers(r) <= MaxPlayers

\* C2: a room that holds at least one player is in the registry and its
\* gameLoop is running, whatever the interleaving of admission, disconnect
\* and tick and whatever its game state.
C2_OccupiedRoomIsLive ==
    \A r \in DOMAIN rooms :
        numPlayers(r) > 0 => r \in gameRooms /\ loop[r] # "stopped"

\* C3: once a room is gameover or clear its state changes only by a restart,
\* which makes it playing; within one updateGame the state changes at most
\* once, from playing to gameover or from playing to clear, never from
\* gameover to clear or from clear to gameover.
C3_OnlyListedTransitions ==
    [][\A r \in DOMAIN rooms :
          /\ rooms[r].GameState \in Terminal =>
                \/ rooms'[r].GameState = rooms[r].GameState
                \/ ev'.op = "restart" /\ ev'.room = r /\ rooms'[r].GameState = "playing"
          /\ (ev'.op = "tick" /\ ev'.room = r) =>
                ev'.trans \in {<<>>, <<"gameover">>, <<"clear">>}]_vars

\* C4: after a restart is processed in a room that was gameover or clear, the
\* room is playing with enemiesDefeated = 0, bossSpawned = false, no boss, and
\* no bullets, no enemies and no items.
C4_RestartClearsRoom ==
    (ev.op = "restart" /\ ev.pre \in Terminal) =>
        LET R == rooms[ev.room]
        IN /\ R.GameState = "playing"
           /\ R.EnemiesDefeated = 0
           /\ ~R.BossSpawned
           /\ ~hasBoss(R)
           /\ R.Bullets = <<>>
           /\ R.Enemies = <<>>
           /\ R.Items = <<>>

\* C5: after a restart is processed in a room that was gameover or clear,
\* every player in the room has health 100 and score 0.
C5_RestartResetsPlayers ==
    (ev.op = "restart" /\ ev.pre \in Terminal) =>
        \A q \in DOMAIN rooms[ev.room].Players :
            /\ rooms[ev.room].Players[q].Health = FullHealth
            /\ rooms[ev.room].Players[q].Score = 0

\* C5 witness: a restart has been applied to a cleared room that still holds
\* both players (each had been given the clear bonus).
C5_Witness ==
    /\ ev.op = "restart"
    /\ ev.pre = "clear"
    /\ numPlayers(ev.room) = 2

\* C6: a restart message handled while the room is playing has no effect; in
\* particular the reset is never applied to a room that is playing at the
\* moment it is applied, also when several sessions send restart at once.
C6_NoResetWhilePlaying ==
    ev.op = "restart" => ev.pre # "playing"

\* C7: every player's health is in 0..100 and every player's score is >= 0,
\* after any sequence of ticks, inputs, restarts, joins and leaves.
C7_HealthAndScoreInRange ==
    \A r \in DOMAIN rooms : \A q \in DOMAIN rooms[r].Players :
        /\ rooms[r].Players[q].Health \in 0..FullHealth
        /\ rooms[r].Players[q].Score >= 0

\* C7 witness: a tick in which the boss was destroyed and then the last
\* player died has left a player with health 0 (floored) and score 500.
C7_Witness ==
    /\ ev.op = "tick"
    /\ ev.trans = <<"clear", "gameover">>
    /\ \E q \in DOMAIN rooms[ev.room].Players :
          /\ rooms[ev.room].Players[q].Health = 0
          /\ rooms[ev.room].Players[q].Score = BossBonus

\* C8: after any tick of a room that holds at least one player, if every
\* player in it has health 0 then the room is gameover.
C8_AllDeadIsGameover ==
    (ev.op = "tick" /\ numPlayers(ev.room) > 0 /\ allDead(rooms[ev.room])) =>
        rooms[ev.room].GameState = "gameover"

\* C9: when a friendly bullet brings the boss's health to 0 in a tick, then at
\* the end of that tick the boss is absent, the room is clear, and the bonus
\* of 500 was given to the players once.
C9_BossKillEndsClear ==
    (ev.op = "tick" /\ ev.bonus > 0) =>
        /\ ~hasBoss(rooms[ev.room])
        /\ rooms[ev.room].GameState = "clear"
        /\ ev.bonus = 1

\* C10: in a tick, each friendly bullet that hits the boss lowers its health by
\* exactly 1 and does nothing else (it destroys no enemy): a boss that is still
\* there has lost one health per hit and has at least 1 left, a boss that is
\* gone took exactly as many hits as it had health; so a boss made with health
\* 100 goes at its 100th hit.
C10_OneHealthPerHit ==
    [][\A r \in DOMAIN rooms :
          (ev'.op = "tick" /\ ev'.room = r /\ hasBoss(rooms[r])
             /\ rooms[r].GameState = "playing") =>
              /\ IF hasBoss(rooms'[r])
                 THEN /\ rooms'[r].Boss.Health = rooms[r].Boss.Health - ev'.hits
                      /\ rooms'[r].Boss.Health >= 1
                 ELSE ev'.hits = rooms[r].Boss.Health
              /\ rooms[r].Boss.Health <= BossHealth
              /\ ev'.hits + (rooms'[r].EnemiesDefeated - rooms[r].EnemiesDefeated)
                    <= Cardinality(friendly(rooms[r]))
                          - Cardinality(friendly(rooms'[r]))]_vars

\* C10 witness: two friendly bullets hit a boss that had 2 health in one tick
\* and the boss is gone; the enemy they also overlapped was not destroyed.
C10_Witness ==
    /\ ev.op = "tick"
    /\ ev.hits = 2
    /\ ~hasBoss(rooms[ev.room])
    /\ rooms[ev.room].EnemiesDefeated = BossThreshold
    /\ \E q \in DOMAIN rooms[ev.room].Players :
          rooms[ev.room].Players[q].Health = FullHealth - EnemyDamage

\* C11: within one play-through the boss is spawned at most once and only when
\* enemiesDefeated >= 20: whenever a boss is present in a room, that room's
\* enemiesDefeated is at least 20, under every interleaving of the spawner
\* with restart messages and ticks.
C11_BossOnlyAfterTwenty ==
    \A r \in DOMAIN rooms :
        hasBoss(rooms[r]) => rooms[r].EnemiesDefeated >= BossThreshold

\* C12: no ordinary enemy is added to a room while its bossSpawned flag is set
\* or while its state is not playing; from the creation of the boss until a
\* restart clears the flag the spawner adds no enemy.
C12_NoEnemyAfterBoss ==
    [][\A r \in DOMAIN rooms :
          ~(DOMAIN rooms'[r].Enemies \subseteq DOMAIN rooms[r].Enemies) =>
              /\ rooms[r].GameState = "playing"
              /\ ~rooms[r].BossSpawned
              /\ ev'.op = "enemy"]_vars

\* C12 witness: the spawner has added an enemy to a playing room with the flag
\* clear, in a play-through begun by a restart (enemiesDefeated is back at 0).
C12_Witness ==
    /\ ev.op = "enemy"
    /\ rooms[ev.room].EnemiesDefeated = 0
    /\ numPlayers(ev.room) = NumSessions
    /\ \A s \in DOMAIN sess : sess[s].pc = "loop"

\* C13: the room a connection is assigned was registered, had fewer than 4
\* players and was playing at the moment it was selected; a new room is
\* created and registered only when no registered room is like that.
C13_SelectedRoomWasOpen ==
    [][\A s \in DOMAIN sess :
          (sess[s].pc = "idle" /\ sess'[s].pc = "selected") =>
              LET r == sess'[s].room
              IN IF r \in DOMAIN rooms
                 THEN /\ r \in gameRooms
                      /\ numPlayers(r) < MaxPlayers
                      /\ rooms[r].GameState = "playing"
                      /\ UNCHANGED <<gameRooms, rooms, loop>>
                 ELSE /\ \A q \in gameRooms :
                            numPlayers(q) >= MaxPlayers \/ rooms[q].GameState # "playing"
                      /\ gameRooms' = gameRooms \cup {r}
                      /\ rooms'[r] = newGameRoom
                      /\ loop'[r] = "select"]_vars

\* C13 witness: the first room is registered and holds one player but its game
\* is over; a connection was given a second, new room, which filled up, and
\* the last connection found no room at all.
C13_Witness ==
    /\ Len(rooms) = 2
    /\ gameRooms = {1, 2}
    /\ rooms[1].GameState = "gameover"
    /\ numPlayers(1) = 1
    /\ numPlayers(2) = MaxPlayers

\* C14: a tick that finds the room's player map empty removes the room from the
\* registry and ends its loop, which never ticks, spawns or broadcasts again;
\* with the loop scheduled fairly, a room that stays empty is eventually
\* retired.
C14_EmptyRoomRetires ==
    /\ [][\A r \in DOMAIN rooms :
             /\ (loop[r] = "check" /\ loop'[r] # "check" /\ numPlayers(r) = 0) =>
                    (r \notin gameRooms' /\ loop'[r] = "stopped")
             /\ loop[r] = "stopped" =>
                    /\ loop'[r] = "stopped"
                    /\ r \notin gameRooms'
                    /\ ~(ev'.room = r /\ ev'.op \in {"tick", "send", "enemy", "boss"})]_vars
    /\ \A r \in 1..MaxRooms :
          <>[](r \in DOMAIN rooms /\ numPlayers(r) = 0) =>
              <>(r \in DOMAIN rooms /\ loop[r] = "stopped" /\ r \notin gameRooms)

\* C14 witness: the room's sessions have all disconnected and the tick that
\* followed has retired it.
C14_Witness ==
    /\ ev.op = "retire"
    /\ ev.room \notin gameRooms
    /\ loop[ev.room] = "stopped"
    /\ \A s \in DOMAIN sess : sess[s].pc = "closed" /\ sess[s].room = ev.room

\* C15: a shoot message handled while the room is playing adds exactly
\* firePower new bullets of type bullet to the room's bullet map, for every
\* firePower >= 1, and changes nothing else.
C15_ShootAddsFirePowerBullets ==
    [][\A s \in DOMAIN sess :
          (ev'.op = "volley" /\ ev'.sess = s /\ rooms[sess[s].room].GameState = "playing") =>
              LET r == sess[s].room
                  new == DOMAIN rooms'[r].Bullets \ DOMAIN rooms[r].Bullets
              IN /\ Cardinality(new) = rooms[r].Players[s].FirePower
                 /\ rooms[r].Players[s].FirePower >= 1
                 /\ \A b \in new : rooms'[r].Bullets[b].Type = "bullet"
                 /\ \A b \in DOMAIN rooms[r].Bullets :
                       b \in DOMAIN rooms'[r].Bullets /\ rooms'[r].Bullets[b] = rooms[r].Bullets[b]
                 /\ [rooms'[r] EXCEPT !.Bullets = rooms[r].Bullets] = rooms[r]
                 /\ \A q \in DOMAIN rooms \ {r} : rooms'[q] = rooms[q]
                 /\ UNCHANGED <<gameRooms, loop, sess, clients, snap>>]_vars

\* C15 witness: a player with fire-power 3 has shot into an empty bullet map,
\* which now holds 3 bullets.
C15_Witness ==
    /\ ev.op = "volley"
    /\ ev.pre = "playing"
    /\ rooms[ev.room].Players[ev.sess].FirePower = 3
    /\ Cardinality(DOMAIN rooms[ev.room].Bullets) = 3

\* C16: for every firePower >= 1 the bullets of one shoot message lie
\* symmetrically about the centred position player.x + width/2 - 2.5: the set
\* of their horizontal offsets from it is its own mirror image about 0, and so
\* is the set of their lateral velocities.
C16_SymmetricFan ==
    [][\A s \in DOMAIN sess :
          (ev'.op = "volley" /\ ev'.sess = s /\ rooms[sess[s].room].GameState = "playing") =>
              LET r == sess[s].room
                  p == rooms[r].Players[s]
                  new == DOMAIN rooms'[r].Bullets \ DOMAIN rooms[r].Bullets
                  offs == {rooms'[r].Bullets[b].X - (p.X + p.W \div 2 - 5) : b \in new}
                  vels == {rooms'[r].Bullets[b].VX : b \in new}
              IN /\ \A o \in offs : (0 - o) \in offs
                 /\ \A v \in vels : (0 - v) \in vels]_vars

\* C17: a fire request is ignored unless the room is playing: no friendly
\* bullet is put in a room's bullet map at a moment when the room is gameover
\* or clear, under any interleaving of shoot handling with ticks.
C17_NoBulletUnlessPlaying ==
    ev.op = "bullet" => ev.pre = "playing"

\* C18: while a room is not playing a tick changes nothing in the room
\* (players, bullets, enemies, items, boss, enemiesDefeated, bossSpawned,
\* state); the loop goes on to broadcast and to tick again.
C18_TickIdleUnlessPlaying ==
    [][\A r \in DOMAIN rooms :
          (ev'.op = "tick" /\ ev'.room = r /\ rooms[r].GameState # "playing") =>
              /\ rooms'[r] = rooms[r]
              /\ ev'.trans = <<>>
              /\ loop'[r] = "broadcast"
              /\ r \in gameRooms']_vars

\* C18 witness: a tick has run in a room that is gameover or clear while a
\* bullet in flight and a falling item are in it.
C18_Witness ==
    /\ ev.op = "tick"
    /\ ev.pre \in Terminal
    /\ rooms[ev.room].Items # <<>>
    /\ rooms[ev.room].Bullets # <<>>
    /\ loop[ev.room] = "broadcast"

\* C19: every change an input handler makes to a room is made under the room's
\* lock, so none takes effect in the middle of a tick: a tick sees each
\* player's velocity pair either as it was before a move message or as it is
\* after it, never the new vx with the old vy.
C19_TickSeesWholeMove ==
    (ev.op = "tick" /\ ev.pre = "playing") =>
        \A s \in DOMAIN sess :
            (sess[s].pc = "moveVy" /\ sess[s].room = ev.room) =>
                rooms[ev.room].Players[s].VY = sess[s].vy

\* C20: the gameState message broadcastGameState sends is the room as it was at
\* one instant while the room's lock was held: its players, bullets, enemies,
\* items, boss and counters all belong to that locked state, and nothing an
\* input handler does after the lock is released changes what is sent.
C20_SentIsLockedState ==
    ev.op = "send" => ev.msg = message(stateMap(ev.at), ev.at)

C30_HostileHitsOnePlayer ==
    [][\A r \in DOMAIN rooms :
          (ev'.op = "tick" /\ ev'.room = r /\ rooms[r].GameState = "playing") =>
              LET lost == totalHealth(rooms[r]) - totalHealth(rooms'[r])
                  due == BulletDamage * ev'.shots + EnemyDamage * ev'.crashes
                            + BossDamage * ev'.touches
                  Q == rooms'[r].Players
                  E == rooms[r].Enemies
                  removed == Cardinality(DOMAIN E) - Cardinality(DOMAIN rooms'[r].Enemies)
                  kills == rooms'[r].EnemiesDefeated - rooms[r].EnemiesDefeated
                  off == Cardinality({e \in DOMAIN E : E[e].Y + E[e].VY > FieldH})
              IN /\ lost <= due
                 /\ (\A q \in DOMAIN Q : Q[q].Health > 0) => lost = due
                 /\ Cardinality(hostile(rooms'[r]))
                       <= Cardinality(hostile(rooms[r])) + ev'.fired - ev'.shots
                 /\ removed >= ev'.crashes + kills
                 /\ removed <= ev'.crashes + kills + off
                 /\ (hasBoss(rooms[r]) /\ hasBoss(rooms'[r])) =>
                       rooms'[r].Boss.Health = rooms[r].Boss.Health - ev'.hits]_vars

\* C30 witness: two players stand on each other, one hostile projectile has hit
\* in the tick and nothing else has hurt anybody: one player has lost 15 and
\* the other nothing.
C30_Witness ==
    /\ ev.op = "tick"
    /\ ev.pre = "playing"
    /\ ev.shots = 1
    /\ ev.crashes = 0
    /\ ev.touches = 0
    /\ LET P == rooms[ev.room].Players
       IN \E p, q \in DOMAIN P :
             /\ p # q
             /\ checkCollision(P[p], P[q])
             /\ P[p].Health = FullHealth - BulletDamage
             /\ P[q].Health = FullHealth

\* C27: every enemy destroyed by a friendly bullet in a tick adds 10 to the
\* score of a player of the room: the scores of the room rise in a playing
\* tick by 10 per enemy destroyed (and by the boss bonus of every player when
\* the boss is destroyed).
C27_KillEarnsTen ==
    [][\A r \in DOMAIN rooms :
          (ev'.op = "tick" /\ ev'.room = r /\ rooms[r].GameState = "playing") =>
              totalScore(rooms'[r]) - totalScore(rooms[r])
                 = KillScore * (rooms'[r].EnemiesDefeated - rooms[r].EnemiesDefeated)
                      + BossBonus * ev'.bonus * numPlayers(r)]_vars

\* C29: a hostile bullet emitted in a playing tick has been advanced in that
\* tick: after the tick no boss bullet is still at the muzzle of the boss
\* (the middle of its lower edge), where it is created.
C29_EmittedIsAdvanced ==
    [][\A r \in DOMAIN rooms :
          (ev'.op = "tick" /\ ev'.room = r /\ rooms[r].GameState = "playing"
             /\ hasBoss(rooms'[r])) =>
              \A b \in DOMAIN rooms'[r].Bullets :
                 LET B == rooms'[r].Bullets[b]
                     boss == rooms'[r].Boss
                 IN B.Type = "bossBullet" =>
                       ~(B.X = boss.X + boss.W \div 2 /\ B.Y = boss.Y + boss.H)]_vars

\* C28: after every tick of a playing room every player of the room is inside
\* the field, 0 <= x <= 770 and 0 <= y <= 570, whatever velocities its client
\* has sent.
C28_PlayersStayInField ==
    [][\A r \in DOMAIN rooms :
          (ev'.op = "tick" /\ ev'.room = r /\ rooms[r].GameState = "playing") =>
              \A p \in DOMAIN rooms'[r].Players :
                 LET P == rooms'[r].Players[p]
                 IN /\ 0 <= P.X /\ P.X <= Px(770)
                    /\ 0 <= P.Y /\ P.Y <= Px(570)]_vars

\* C28 witness: a player whose client sent a velocity larger than the field
\* has been moved by a playing tick and stands in the lower left corner.
C28_Witness ==
    /\ ev.op = "tick"
    /\ ev.pre = "playing"
    /\ \E p \in DOMAIN rooms[ev.room].Players :
          LET P == rooms[ev.room].Players[p]
          IN /\ P.VX < 0 - FieldW
             /\ P.VY > FieldH
             /\ P.X = 0
             /\ P.Y = Px(570)

\* C23: a session whose handler has ended on a transport error, a failed read
\* or a failed write of the init message, has no player in its room and is
\* not in the session table.
C23_EndedSessionLeavesNothing ==
    \A s \in DOMAIN sess :
        sess[s].pc \in {"closed", "failed"} =>
            /\ s \notin DOMAIN rooms[sess[s].room].Players
            /\ s \notin clients

\* C21: while the loop of one room is writing a snapshot to its sessions,
\* nothing else is held up by it: the loop of another room that has built
\* its state map can go on to its own writes, a session that is leaving can
\* be taken out of the session table, and a new session can be admitted.
C21_SendingBlocksNobody ==
    \A r \in DOMAIN loop :
        loop[r] = "sending" =>
            /\ \A q \in DOMAIN loop : loop[q] = "send" => ENABLED LockClients(q)
            /\ \A s \in DOMAIN sess : sess[s].pc = "leaving" => ENABLED Unregister(s)
            /\ \A s \in DOMAIN sess :
                  (sess[s].pc = "idle" /\ (openRooms # {} \/ Len(rooms) < MaxRooms))
                      => ENABLED Connect(s)

\* C22: no task waits for a lock for ever: the loop that holds the lock on the
\* session table is never itself waiting for anything but its writes, so, the
\* writes returning, every loop that asks for the lock gets it and every
\* leaving session is taken out of the table.
C22_LockRequestsGranted ==
    /\ [](\A r \in DOMAIN loop : loop[r] = "sending" => ENABLED Deliver(r))
    /\ \A r \in 1..MaxRooms :
          (r \in DOMAIN loop /\ loop[r] = "send") ~> (r \in DOMAIN loop /\ loop[r] = "sending")
    /\ \A s \in 1..NumSessions :
          (sess[s].pc = "leaving") ~> (sess[s].pc = "closed")

\* C22 witness: the loop of room 1 holds the lock on the session table while
\* the loop of room 2 and a leaving session both wait for it.
C22_Witness ==
    /\ Len(loop) = 2
    /\ loop[1] = "sending"
    /\ loop[2] = "send"
    /\ \E s \in DOMAIN sess : sess[s].pc = "leaving"

\* C24: a write that fails does not end the broadcast: the snapshot is written
\* to every session bound to the room, the sessions whose write failed stay
\* in the session table and bound, and the loop goes on to its check and next
\* tick.
C24_FailedSendStopsNothing ==
    [][\A r \in DOMAIN loop :
          (loop[r] = "sending" /\ loop'[r] # "sending") =>
              /\ ev'.op = "send"
              /\ ev'.room = r
              /\ ev'.failed \subseteq ev'.to
              /\ \A s \in DOMAIN sess : (s \in clients /\ sess[s].room = r) => s \in ev'.to
              /\ clients' = clients
              /\ sess' = sess
              /\ rooms' = rooms
              /\ gameRooms' = gameRooms
              /\ loop'[r] = "check"]_vars

\* C24 witness: a broadcast has ended in which the write to one session failed
\* and the write to another session of the room did not.
C24_Witness ==
    /\ ev.op = "send"
    /\ "failed" \in DOMAIN ev
    /\ ev.failed # {}
    /\ ev.to \ ev.failed # {}
    /\ ev.failed \subseteq clients
    /\ loop[ev.room] = "check"

\* C25: the tick of a room is followed by its broadcast, which writes to
\* exactly the sessions bound to that room; and a room is changed only by its
\* own tick and by what the sessions bound to it do.
C25_RoomsAreSeparate ==
    [][\A r \in DOMAIN rooms :
          /\ (ev'.op = "tick" /\ ev'.room = r /\ loop[r] = "select") => loop'[r] = "broadcast"
          /\ (loop[r] = "sending" /\ loop'[r] # "sending") =>
                 ev'.to = {s \in DOMAIN sess : s \in clients /\ sess[s].room = r}
          /\ rooms'[r] # rooms[r] =>
                 /\ ev'.room = r
                 /\ ev'.sess # 0 => sess[ev'.sess].room = r]_vars

\* C25 witness: with two rooms in use, a broadcast has written to the sessions
\* of its room while a session of the other room was in the session table.
C25_Witness ==
    /\ ev.op = "send"
    /\ "to" \in DOMAIN ev
    /\ ev.to # {}
    /\ \E s \in clients : sess[s].room # ev.room /\ s \in DOMAIN rooms[sess[s].room].Players

\* C31: a friendly bullet that, moved, overlaps enemies (no boss being there)
\* destroys exactly one of them: it and that enemy are removed,
\* enemiesDefeated rises by 1 and one item appears where the enemy was; a
\* bullet that has left the field is removed and destroys nothing, and a
\* bullet over no enemy flies on.
C31_BulletDestroysOneEnemy ==
    [][\A r \in DOMAIN rooms :
          (ev'.op = "tick" /\ ev'.room = r /\ rooms[r].GameState = "playing"
             /\ ~hasBoss(rooms[r])) =>
              LET B == rooms[r].Bullets
                  E == rooms[r].Enemies
                  I == rooms[r].Items
                  E2 == rooms'[r].Enemies
                  I2 == rooms'[r].Items
                  kills == rooms'[r].EnemiesDefeated - rooms[r].EnemiesDefeated
                  moved(b) == [B[b] EXCEPT !.X = @ + B[b].VX, !.Y = @ + B[b].VY]
                  off(b) == \/ moved(b).Y < 0 \/ moved(b).Y > FieldH
                            \/ moved(b).X < 0 \/ moved(b).X > FieldW
                  over(b) == {e \in DOMAIN E : checkCollision(moved(b), E[e])}
                  live == {b \in friendly(rooms[r]) : ~off(b)}
              IN /\ kills <= Cardinality(live)
                 /\ kills <= Cardinality(DOMAIN E)
                 /\ Cardinality(DOMAIN E2) = Cardinality(DOMAIN E) - kills - ev'.crashes
                 /\ Cardinality(DOMAIN I2) = Cardinality(DOMAIN I) + kills
                 /\ Cardinality(friendly(rooms'[r]))
                       = Cardinality(live) - kills
                 /\ \A b \in DOMAIN B :
                       friendly(rooms[r]) = {b} =>
                           IF off(b)
                           THEN /\ kills = 0
                                /\ friendly(rooms'[r]) = {}
                           ELSE IF over(b) # {}
                           THEN /\ kills = 1
                                /\ friendly(rooms'[r]) = {}
                                /\ \E e \in over(b) :
                                      /\ DOMAIN E2 = DOMAIN E \ {e}
                                      /\ \E i \in DOMAIN I2 \ DOMAIN I :
                                            /\ I2[i].Type = "item"
                                            /\ I2[i].X = E[e].X
                                            /\ I2[i].Y = E[e].Y + I2[i].VY
                           ELSE /\ kills = 0
                                /\ friendly(rooms'[r]) = {b}
                                /\ rooms'[r].Bullets[b] = moved(b)]_vars

\* C31 witness: a tick has destroyed one of two enemies that the one bullet in
\* flight overlapped: the other enemy is still there, one item is falling and
\* the bullet is gone.
C31_Witness ==
    /\ ev.op = "tick"
    /\ ev.pre = "playing"
    /\ clock = 1
    /\ rooms[ev.room].EnemiesDefeated = 1
    /\ Cardinality(DOMAIN rooms[ev.room].Enemies) = 1
    /\ Cardinality(DOMAIN rooms[ev.room].Items) = 1
    /\ friendly(rooms[ev.room]) = {}
    /\ \A e \in DOMAIN rooms[ev.room].Enemies :
          \E i \in DOMAIN rooms[ev.room].Items :
             checkCollision(rooms[ev.room].Enemies[e], rooms[ev.room].Items[i])

\* C32: the fire-power of a player is at least 1 and never falls while the
\* player is in its room; it rises only in a playing tick of its room, by 1
\* for every item that is taken out of the room by a pick-up, each item going
\* to one player; joins, shots, restarts, leaves and the ticks of rooms that
\* are not playing leave it as it is.
C32_FirePowerOnlyGrows ==
    [][\A r \in DOMAIN rooms :
          LET P == rooms[r].Players
              Q == rooms'[r].Players
              tick == ev'.op = "tick" /\ ev'.room = r /\ rooms[r].GameState = "playing"
              I == rooms[r].Items
              kills == rooms'[r].EnemiesDefeated - rooms[r].EnemiesDefeated
              off == Cardinality({i \in DOMAIN I : I[i].Y + I[i].VY > FieldH})
              taken == Cardinality(DOMAIN I) + kills - off
                          - Cardinality(DOMAIN rooms'[r].Items)
          IN /\ \A p \in DOMAIN Q : Q[p].FirePower >= 1
             /\ \A p \in DOMAIN P \cap DOMAIN Q :
                   /\ Q[p].FirePower >= P[p].FirePower
                   /\ ~tick => Q[p].FirePower = P[p].FirePower
             /\ (tick /\ DOMAIN P # {}) => totalPower(rooms'[r]) - totalPower(rooms[r]) = taken]_vars

\* C32 witness: an item that overlapped two players at once has been picked
\* up in a tick: it is gone, one of the two has fire-power 2 and the other
\* still 1; the room has since been restarted and the fire-power is kept.
C32_Witness ==
    /\ ev.op = "restart"
    /\ rooms[ev.room].GameState = "playing"
    /\ LET P == rooms[ev.room].Players
       IN \E p, q \in DOMAIN P :
             /\ P[p].FirePower = 2
             /\ P[q].FirePower = 1
             /\ P[p].Health = FullHealth
             /\ P[p].Score = 0

\* the rectangles of a room: its players, bullets, enemies, items and boss
rects(R) ==
    {R.Players[p] : p \in DOMAIN R.Players} \cup {R.Bullets[b] : b \in DOMAIN R.Bullets}
       \cup {R.Enemies[e] : e \in DOMAIN R.Enemies} \cup {R.Items[i] : i \in DOMAIN R.Items}
       \cup (IF hasBoss(R) THEN {R.Boss} ELSE {})

\* C33: checkCollision gives the same answer with its arguments exchanged, and
\* a rectangle does not overlap a copy of itself moved by exactly its width
\* or exactly its height, to either side; an enemy that comes to rest edge to
\* edge with a player has not collided with it.
C33_SymmetricAndEdgeExclusive ==
    /\ \A r \in DOMAIN rooms :
          /\ \A a, b \in rects(rooms[r]) : checkCollision(a, b) = checkCollision(b, a)
          /\ \A a \in rects(rooms[r]) :
                /\ checkCollision(a, a)
                /\ ~checkCollision(a, [a EXCEPT !.X = @ + a.W])
                /\ ~checkCollision([a EXCEPT !.X = @ + a.W], a)
                /\ ~checkCollision(a, [a EXCEPT !.Y = @ + a.H])
                /\ ~checkCollision([a EXCEPT !.Y = @ + a.H], a)
    /\ (ev.op = "tick" /\ ev.pre = "playing") =>
          LET R == rooms[ev.room]
          IN \A e \in DOMAIN R.Enemies, p \in DOMAIN R.Players :
                LET E == R.Enemies[e]
                    P == R.Players[p]
                IN (\/ E.X + E.W = P.X \/ P.X + P.W = E.X
                    \/ E.Y + E.H = P.Y \/ P.Y + P.H = E.Y) => ev.crashes = 0

\* C33 witness: after a tick an enemy stands exactly edge to edge with the
\* player, left of it and at its height, and is still there.
C33_Witness ==
    /\ ev.op = "tick"
    /\ ev.pre = "playing"
    /\ ev.crashes = 0
    /\ LET R == rooms[ev.room]
       IN \E e \in DOMAIN R.Enemies, p \in DOMAIN R.Players :
             /\ R.Enemies[e].X + R.Enemies[e].W = R.Players[p].X
             /\ R.Enemies[e].Y = R.Players[p].Y
             /\ R.Players[p].Health = FullHealth

\* C34: the boss of a room, when there is one, has health from 1 to 100 in
\* every state; a boss that is there before and after a step is the same boss
\* with the same health unless the step is a tick, which takes exactly the
\* friendly hits from it and moves it sideways only; a boss goes away only
\* by its last hit or by a restart, never by touching a player.
C34_BossHealthOnlyByBullets ==
    /\ [](\A r \in DOMAIN rooms :
             hasBoss(rooms[r]) =>
                 (rooms[r].Boss.Health >= 1 /\ rooms[r].Boss.Health <= BossHealth))
    /\ [][\A r \in DOMAIN rooms :
             LET tick == ev'.op = "tick" /\ ev'.room = r
                 B == rooms[r].Boss
                 B2 == rooms'[r].Boss
             IN /\ (hasBoss(rooms[r]) /\ hasBoss(rooms'[r])) =>
                       /\ B2.Health = B.Health - (IF tick THEN ev'.hits ELSE 0)
                       /\ [B2 EXCEPT !.Health = B.Health, !.X = B.X, !.VX = B.VX] = B
                       /\ ~tick => B2 = B
                /\ (hasBoss(rooms[r]) /\ ~hasBoss(rooms'[r])) =>
                       \/ tick /\ ev'.hits = B.Health
                       \/ ev'.op = "restart" /\ ev'.room = r
                /\ (~hasBoss(rooms[r]) /\ hasBoss(rooms'[r])) =>
                       /\ ev'.op = "boss"
                       /\ B2 = newBoss]_vars

\* C34 witness: a boss with 1 health has touched a player in a tick in which
\* no bullet hit it: the player has lost 20 and the boss is there with its
\* health of 1.
C34_Witness ==
    /\ ev.op = "tick"
    /\ ev.pre = "playing"
    /\ ev.touches >= 1
    /\ ev.hits = 0
    /\ hasBoss(rooms[ev.room])
    /\ rooms[ev.room].Boss.Health = 1
    /\ \E p \in DOMAIN rooms[ev.room].Players :
          /\ rooms[ev.room].Players[p].Health = FullHealth - BossDamage
          /\ checkCollision(rooms[ev.room].Boss, rooms[ev.room].Players[p])

\* C35: no snapshot is written to a session before its init message: every
\* session a broadcast writes to has been sent its init message, that is, its
\* handler is past the write that follows the insertion of its player.
C35_InitComesFirst ==
    [][\A r \in DOMAIN loop :
          (loop[r] = "sending" /\ loop'[r] # "sending") =>
              \A s \in ev'.to : sess[s].pc # "selected"]_vars

\* C36: every player of every room is inside the field in every state,
\* 0 <= x <= 770 and 0 <= y <= 570, right after its admission as well as
\* after a tick.
C36_SpawnInsideField ==
    \A r \in DOMAIN rooms :
        \A p \in DOMAIN rooms[r].Players :
            LET P == rooms[r].Players[p]
            IN /\ 0 <= P.X /\ P.X <= Px(770)
               /\ 0 <= P.Y /\ P.Y <= Px(570)

\* C37: enemiesDefeated is 0 in a new room and after a restart, and otherwise
\* changes only in a playing tick, by the number of friendly bullets that
\* were used up on enemies: those that went, less those that left the field
\* and those that hit the boss. Enemies that run into a player or leave the
\* field at the bottom, and the hits on the boss, do not count.
C37_CountsBulletKillsOnly ==
    [][\A r \in DOMAIN rooms' :
          IF r \notin DOMAIN rooms THEN rooms'[r].EnemiesDefeated = 0
          ELSE LET R == rooms[r]
                   B == R.Bullets
                   gain == rooms'[r].EnemiesDefeated - R.EnemiesDefeated
                   offB == {b \in friendly(R) :
                               \/ B[b].Y + B[b].VY < 0 \/ B[b].Y + B[b].VY > FieldH
                               \/ B[b].X + B[b].VX < 0 \/ B[b].X + B[b].VX > FieldW}
                   offE == {e \in DOMAIN R.Enemies :
                               R.Enemies[e].Y + R.Enemies[e].VY > FieldH}
               IN IF ev'.op = "tick" /\ ev'.room = r /\ R.GameState = "playing"
                  THEN /\ gain = Cardinality(friendly(R)) - Cardinality(offB)
                                    - ev'.hits - Cardinality(friendly(rooms'[r]))
                       /\ gain = Cardinality(DOMAIN R.Enemies) - ev'.crashes
                                    - Cardinality(offE \cap (DOMAIN R.Enemies \ DOMAIN rooms'[r].Enemies))
                                    - Cardinality(DOMAIN rooms'[r].Enemies)
                       /\ gain >= 0
                  ELSE IF ev'.op = "restart" /\ ev'.room = r
                  THEN rooms'[r].EnemiesDefeated = 0
                  ELSE gain = 0]_vars

\* C37 witness: in one tick an enemy has run into a player and the boss has
\* been hit by a bullet: the enemy is gone and enemiesDefeated is what it
\* was, 20.
C37_Witness ==
    /\ ev.op = "tick"
    /\ ev.pre = "playing"
    /\ clock = 1
    /\ ev.hits >= 1
    /\ ev.crashes = 1
    /\ rooms[ev.room].Enemies = <<>>
    /\ rooms[ev.room].EnemiesDefeated = BossThreshold
    /\ hasBoss(rooms[ev.room])

\* C38: the disconnect of a session takes its own player out of its room and
\* its own entry out of the session table and changes nothing else: the
\* other players, the bullets, enemies, items, boss, counters and state of
\* the room, the other rooms, the other sessions, the registry and the loops
\* are as they were.
C38_DisconnectTouchesOnlyItself ==
    [][ev'.op = "leave" =>
          LET s == ev'.sess
              r == ev'.room
              R == rooms[r]
              R2 == rooms'[r]
          IN /\ sess[s].room = r
             /\ DOMAIN R2.Players = DOMAIN R.Players \ {s}
             /\ \A q \in DOMAIN R2.Players : R2.Players[q] = R.Players[q]
             /\ [R2 EXCEPT !.Players = R.Players] = R
             /\ \A q \in DOMAIN rooms : q # r => rooms'[q] = rooms[q]
             /\ DOMAIN rooms' = DOMAIN rooms
             /\ clients' = clients \ {s}
             /\ \A t \in DOMAIN sess : t # s => sess'[t] = sess[t]
             /\ sess'[s].room = r
             /\ gameRooms' = gameRooms
             /\ loop' = loop]_vars

\* C38 witness: a session has just left a room in which a boss, a bullet and
\* another player are: they are all still there, and the other session is in
\* the session table.
C38_Witness ==
    /\ ev.op = "leave"
    /\ hasBoss(rooms[ev.room])
    /\ rooms[ev.room].Bullets # <<>>
    /\ ev.sess \notin clients
    /\ \E q \in DOMAIN rooms[ev.room].Players : q # ev.sess /\ q \in clients

\* C39: in a room that stays playing and goes on ticking no bullet, enemy or
\* item stays for ever: in every playing tick every one of them that remains
\* has moved on towards the edge it leaves by (friendly bullets up, hostile
\* bullets, enemies and items down) and is still on the field, and in the
\* end they are all gone.
C39_EntitiesLeaveInTheEnd ==
    /\ [][\A r \in DOMAIN rooms :
             (ev'.op = "tick" /\ ev'.room = r /\ rooms[r].GameState = "playing") =>
                 LET R == rooms[r]
                     R2 == rooms'[r]
                 IN /\ \A b \in DOMAIN R.Bullets \cap DOMAIN R2.Bullets :
                          /\ R.Bullets[b].Type = "bullet" => R2.Bullets[b].Y < R.Bullets[b].Y
                          /\ R.Bullets[b].Type # "bullet" => R2.Bullets[b].Y > R.Bullets[b].Y
                    /\ \A b \in DOMAIN R2.Bullets :
                          R2.Bullets[b].Y >= 0 /\ R2.Bullets[b].Y <= FieldH
                    /\ \A e \in DOMAIN R.Enemies \cap DOMAIN R2.Enemies :
                          R2.Enemies[e].Y > R.Enemies[e].Y
                    /\ \A e \in DOMAIN R2.Enemies : R2.Enemies[e].Y <= FieldH
                    /\ \A i \in DOMAIN R.Items \cap DOMAIN R2.Items :
                          R2.Items[i].Y > R.Items[i].Y
                    /\ \A i \in DOMAIN R2.Items : R2.Items[i].Y <= FieldH]_vars
    /\ \A r \in 1..MaxRooms :
          []<>(r \in DOMAIN rooms /\ rooms[r].GameState = "playing") =>
              <>[](r \in DOMAIN rooms /\ rooms[r].Bullets = <<>>
                     /\ rooms[r].Enemies = <<>> /\ rooms[r].Items = <<>>)

\* C39 witness: the room has changed in 41 ticks, as many as the item needed
\* to fall the 40 pixels to the lower edge and past it; the room is still
\* playing and nothing is left in it but the player.
C39_Witness ==
    /\ ev.op = "tick"
    /\ ev.pre = "playing"
    /\ clock = 41
    /\ rooms[ev.room].Bullets = <<>>
    /\ rooms[ev.room].Enemies = <<>>
    /\ rooms[ev.room].Items = <<>>
    /\ rooms[ev.room].GameState = "playing"

====
